---- MODULE Spec2Model ----
(***************************************************************************)
(* Image hosting backend: the upload (ingest) and delete paths of          *)
(* ImageService and their controllers, run by one worker per HTTP request  *)
(* against two stores with no shared transaction: the images table of the  *)
(* database and the files of upload_dir.                                   *)
(*                                                                         *)
(* Every blocking call of a handler (decode, disk write, connect, SQL      *)
(* statement, commit, exists, remove) is one step of the worker that runs  *)
(* it, so that requests interleave exactly at the points where the code    *)
(* touches a store; the calls before a request's first access to a store   *)
(* belong to the step of that access.  A call that can raise has a failing *)
(* branch; the failures injected in one behaviour are counted in `faults`, *)
(* the requests received in `started`.                                     *)
(***************************************************************************)
EXTENDS Integers, FiniteSets, Sequences, TLC

(***************************************************************************)
(* Bounds of the model: the workers that serve requests concurrently, the  *)
(* requests received, the uploads that pass validation and the failures    *)
(* injected in one behaviour.                                              *)
(***************************************************************************)
NumWorkers == 3
MaxRequests == 4
MaxUploads == 2
MaxFaults == 2
MaxRows == 15
MaxPage == 3

Workers == 1..NumWorkers
Ids == 1..MaxUploads

(***************************************************************************)
(* Program constants.                                                      *)
(***************************************************************************)
JPEG == "JPEG"
PNG == "PNG"
GIF == "GIF"
BMP == "BMP"
(* Mutant: the limit is twice as high.                                    *)
MAX_FILE_SIZE_doubled == 2 * 10485760
MAX_FILE_SIZE == 10485760
ALLOWED_EXTENSIONS == {JPEG, PNG, GIF}

(***************************************************************************)
(* An uploaded byte buffer, described by what the decoder makes of it:     *)
(* its length, the outcome of Image.open + verify() on it ("ok",           *)
(* "unidentified" for UnidentifiedImageError, "corrupt" for any other      *)
(* exception), whether the second Image.open succeeds, and the format tag  *)
(* of the decoded image.                                                   *)
(***************************************************************************)
Payload(size, probe, reopen, format) ==
    [size |-> size, probe |-> probe, reopen |-> reopen, format |-> format,
     mode |-> "RGB"]

(* The same buffer with its image in another colour mode.                  *)
WithMode(p, mode) == [p EXCEPT !.mode = mode]

UploadInputs ==
    { Payload(2048, "ok", TRUE, JPEG),
      Payload(12, "unidentified", TRUE, "") }

NoPayload == Payload(0, "ok", TRUE, "")

OriginalNames == {"cat.jpg"}

NoFile == [token |-> 0, ext |-> ""]

(* Mutant: the Validator accepts every buffer.                            *)
validate_bytes_accepts_all(p) == ""

(***************************************************************************)
(* validate_bytes: the error message of the ValueError it raises, or ""    *)
(* when it returns the reopened image.                                     *)
(***************************************************************************)
validate_bytes(p) ==
    IF p.size > MAX_FILE_SIZE THEN "File exceeds maximum file size: 10485760 bytes."
    ELSE IF p.probe = "unidentified" THEN "Invalid image file."
    ELSE IF p.probe = "corrupt" THEN "Invalid or corrupted image file."
    ELSE IF ~p.reopen THEN "Failed to reopen image."
    ELSE IF p.format \notin ALLOWED_EXTENSIONS
         THEN "Image format " \o p.format \o " is not supported."
    ELSE ""

(* The format tags of module image_format, which utils.py imports: the    *)
(* tags the canonical extensions are given for.                            *)
image_format_JPEG == "JPEG"
image_format_PNG == "PNG"
image_format_GIF == "GIF"

(* Mutant: every image gets the extension of a JPEG.                      *)
infer_ext_from_format_always_jpg(fmt) == ".jpg"

infer_ext_from_format(fmt) ==
    IF fmt = image_format_JPEG THEN ".jpg"
    ELSE IF fmt = image_format_PNG THEN ".png"
    ELSE IF fmt = image_format_GIF THEN ".gif"
    ELSE ".img"

(***************************************************************************)
(* State.                                                                  *)
(*   table     the committed rows of the images table                      *)
(*   files     the names of the files in upload_dir                        *)
(*   nextId    the next value of the SERIAL id sequence                    *)
(*   nextToken the next uuid4 token (every token is issued once)           *)
(*   pc        the call each worker's request is about to make             *)
(*   req       the local variables of each worker's running request        *)
(*   last      the response sent last, with the locals of the request it   *)
(*             answered                                                    *)
(*   okDeletes for each id, the number of deletes answered 200             *)
(*   faults    the number of failures injected so far                      *)
(*   started   the number of requests received so far                      *)
(***************************************************************************)
VARIABLES table, files, nextId, nextToken, pc, req, last, okDeletes, faults, started

vars == <<table, files, nextId, nextToken, pc, req, last, okDeletes, faults, started>>

(* A POST request as handle_post sees it: the path, whether Content-Type   *)
(* is multipart/form-data with a boundary, the Content-Length header,      *)
(* whether the multipart body parses, whether the form has a field "file", *)
(* the filename of that field, whether its stream can be read.             *)
Http(path, multipart, content_length, parses, has_file, filename, readable) ==
    [path |-> path, multipart |-> multipart, content_length |-> content_length,
     parses |-> parses, has_file |-> has_file, filename |-> filename,
     readable |-> readable]

NoHttp == Http("", FALSE, 0, FALSE, FALSE, "", FALSE)

(* The pagination block of a listing result.                             *)
Pagination(current_page, per_page, total, total_pages, has_prev, has_next) ==
    [current_page |-> current_page, per_page |-> per_page, total |-> total,
     total_pages |-> total_pages, has_prev |-> has_prev, has_next |-> has_next]

NoPagination == Pagination(0, 0, 0, 0, FALSE, FALSE)

NoReq ==
    [op |-> "none", status |-> 0, message |-> "",
     payload |-> NoPayload, original_name |-> "",
     filename |-> NoFile, image_id |-> 0,
     conn |-> "none", found |-> FALSE, rowcount |-> 0,
     exists |-> FALSE, remove |-> "none", inserted |-> FALSE,
     after |-> FALSE, fault |-> "none",
     requested |-> 0, page |-> 0, per_page |-> 0, offset |-> 0,
     total |-> 0, images |-> <<>>, pagination |-> NoPagination,
     gates |-> <<>>,
     image |-> "none", converted |-> "none", saved_mode |-> "",
     responses |-> 0, http |-> NoHttp, path |-> <<>>]

Row(id, filename, original_name, file_type) ==
    [id |-> id, filename |-> filename, original_name |-> original_name,
     file_type |-> file_type]

RowsById(id) == {r \in table : r.id = id}

Filenames == {r.filename : r \in table}

CanFail == faults < MaxFaults

Init ==
    /\ table = {}
    /\ files = {}
    /\ nextId = 1
    /\ nextToken = 1
    /\ pc = [w \in Workers |-> "idle"]
    /\ req = [w \in Workers |-> NoReq]
    /\ last = NoReq
    /\ okDeletes = [i \in Ids |-> 0]
    /\ faults = 0
    /\ started = 0

(***************************************************************************)
(* json_response: the request of worker w ends with this status and        *)
(* message; the worker is free for the next request.                       *)
(***************************************************************************)
json_response(w, r, status, message) ==
    /\ last' = [r EXCEPT !.status = status, !.message = message,
                         !.responses = @ + 1]
    /\ req' = [req EXCEPT ![w] = NoReq]
    /\ pc' = [pc EXCEPT ![w] = "idle"]

Goto(w, r, label) ==
    /\ req' = [req EXCEPT ![w] = r]
    /\ pc' = [pc EXCEPT ![w] = label]
    /\ last' = last

(***************************************************************************)
(* Workers are interchangeable: a new request is taken by the first free   *)
(* worker.                                                                 *)
(***************************************************************************)
Free(w) ==
    /\ started < MaxRequests
    /\ pc[w] = "idle"
    /\ \A v \in Workers : v < w => pc[v] # "idle"

(***************************************************************************)
(* Upload: UploadController.handle_post -> _save_via_service ->            *)
(* ImageService.handle -> validate_bytes -> save_image.                    *)
(***************************************************************************)
RGB == "RGB"

(* Mutant: no image is converted before it is written.                    *)
save_mode_as_decoded(fmt, mode) == mode

(* save_image, lines 91-97: the colour mode of the image that is written:  *)
(* a JPEG in a mode other than RGB and L is converted to RGB.              *)
save_mode(fmt, mode) ==
    IF fmt = JPEG /\ mode \notin {RGB, "L"} THEN RGB ELSE mode

(* save_image, lines 91-101: the image handles of save_image when it       *)
(* writes the file: the handle it got from validate_bytes and, when the    *)
(* image is converted, the new image convert() returns, which the local    *)
(* variable image refers to from then on.                                  *)
image_opened(r) ==
    [r EXCEPT !.image = "open",
              !.saved_mode = save_mode(r.payload.format, r.payload.mode),
              !.converted = IF save_mode(r.payload.format, r.payload.mode) # r.payload.mode
                              THEN "open" ELSE "none"]

(* save_image, lines 123-127: the finally clause closes the image the      *)
(* local variable image refers to.                                         *)
image_close(r) ==
    IF r.converted = "none" THEN [r EXCEPT !.image = "closed"]
    ELSE [r EXCEPT !.converted = "closed"]

(* Mutant: uuid4 returns the token it returned before.                    *)
uuid4_repeats(token) == token

(* uuid.uuid4(): a 128-bit random token, taken as one that was never       *)
(* issued before; the token issued after this one.                         *)
uuid4(token) == token + 1

(* The extension of a client-supplied name.                                *)
ext_of_name(original_name) ==
    IF original_name = "cat.jpg" THEN ".jpg"
    ELSE IF original_name = "../../etc/passwd.png" THEN ".png"
    ELSE ""

(* Mutant: the stored name keeps the extension of the client's name.      *)
unique_name_keeps_client_ext(token, fmt, original_name) ==
    [token |-> token, ext |-> ext_of_name(original_name)]

(* save_image, lines 82-85: the name of the file is a fresh uuid4 token    *)
(* followed by the extension of the format; the client's name is not used. *)
unique_name(token, fmt, original_name) ==
    [token |-> token, ext |-> infer_ext_from_format(fmt)]

(* Mutant: the image is not written before the metadata step.             *)
WriteFile_skipped(fs, name) == fs

(* image.save(target_path): the file is in upload_dir afterwards.          *)
WriteFile(fs, name) == fs \cup {name}

(* Mutant: the exception of image.save is swallowed and save_image goes   *)
(* on to the metadata step.                                                *)
WriteFailed_swallowed(w, r) ==
    Goto(w, [r EXCEPT !.fault = "write"], "insert")

(* image.save raised: the finally clause closes the image, the exception   *)
(* leaves save_image and handle, and _save_via_service answers it 500.     *)
WriteFailed(w, r) ==
    json_response(w, image_close([r EXCEPT !.fault = "write"]), 500,
                  "Uploading file error.")

(* handle_post from the file bytes up to and including the first call that *)
(* touches a store:                                                        *)
(* the runtime size check of the controller (413), validate_bytes (its     *)
(* ValueError is answered 400 with its message), then save_image, lines    *)
(* 82-101: the name is generated and the image is written.  When           *)
(* image.save raises, the file may or may not have been created.           *)
post_upload(w, r) ==
    LET payload == r.payload
        name == unique_name(nextToken, payload.format, r.original_name)
        saved == image_opened([r EXCEPT !.filename = name])
    IN    IF payload.size > MAX_FILE_SIZE
            THEN /\ json_response(w, r, 413, "File exceeds maximum file size 10485760 bytes.")
                 /\ UNCHANGED <<files, nextToken, faults>>
          ELSE IF validate_bytes(payload) # ""
            THEN /\ json_response(w, r, 400, validate_bytes(payload))
                 /\ UNCHANGED <<files, nextToken, faults>>
          ELSE /\ nextToken' = uuid4(nextToken)
               /\ \/ /\ files' = WriteFile(files, name)
                     /\ Goto(w, saved, "insert")
                     /\ faults' = faults
                  \/ /\ CanFail
                     /\ faults' = faults + 1
                     /\ files' \in {files, files \cup {name}}
                     /\ WriteFailed(w, saved)

(* A POST /upload with well-formed headers and form and a file of at       *)
(* least one byte arrives: handle_post from the runtime size check on.     *)
handle_post(w, payload, original_name) ==
    /\ Free(w)
    /\ nextToken <= MaxUploads
    /\ post_upload(w, [NoReq EXCEPT !.op = "upload", !.payload = payload,
                                    !.original_name = original_name])
    /\ started' = started + 1
    /\ UNCHANGED <<table, nextId, okDeletes>>

(* The metadata step of save_image ended without a connection or by an     *)
(* exception: save_image logs it and returns the name and the url, which   *)
(* handle_post answers 200.                                                *)
MetadataFailed(w, r) ==
    json_response(w, image_close(r), 200, "File successfully uploaded.")

(* save_image, lines 105-114: get_connection() returns a connection or     *)
(* None; on a connection the INSERT is executed, not yet committed.        *)
SaveImageInsert(w) ==
    /\ pc[w] = "insert"
    /\ \/ /\ Goto(w, [req[w] EXCEPT !.conn = "open", !.image_id = nextId], "commit")
          /\ nextId' = nextId + 1
          /\ faults' = faults
       \/ /\ CanFail
          /\ faults' = faults + 1
          /\ nextId' = nextId
          /\ \/ MetadataFailed(w, [req[w] EXCEPT !.fault = "connect"])
             \/ MetadataFailed(w, [req[w] EXCEPT !.conn = "open", !.fault = "insert"])
    /\ UNCHANGED <<table, files, nextToken, okDeletes, started>>

(* save_image, lines 115-117: commit makes the row visible; the cursor and *)
(* the connection are closed only on this path.                            *)
SaveImageCommit(w) ==
    /\ pc[w] = "commit"
    /\ \/ /\ table' = table \cup {Row(req[w].image_id, req[w].filename,
                                       req[w].original_name, req[w].payload.format)}
          /\ json_response(w, image_close([req[w] EXCEPT !.conn = "closed",
                                                          !.inserted = TRUE]),
                           200, "File successfully uploaded.")
          /\ faults' = faults
       \/ /\ CanFail
          /\ faults' = faults + 1
          /\ table' = table
          /\ MetadataFailed(w, [req[w] EXCEPT !.fault = "commit"])
    /\ UNCHANGED <<files, nextId, nextToken, okDeletes, started>>

(***************************************************************************)
(* Delete: DeleteImageController.delete_image ->                           *)
(* ImageService.handle_delete_image.                                       *)
(***************************************************************************)
(* delete_image: the status answered for the bool handle_delete_image      *)
(* returns.                                                                *)
delete_image_status(deleted) == IF deleted THEN 200 ELSE 404

delete_image(w, r, deleted) ==
    json_response(w, r, delete_image_status(deleted),
                  IF deleted THEN "Image deleted" ELSE "Not found")

(* handle_delete_image, lines 303-318: an exception inside the try block   *)
(* rolls back, closes the connection and returns False.                    *)
DeleteRaised(w, r, where) ==
    delete_image(w, [r EXCEPT !.conn = "closed", !.fault = where], FALSE)

(* The workers whose transaction has deleted the row of this id and has    *)
(* not ended: the engine holds the row lock for them.                      *)
LockHolders(id) ==
    {w \in Workers : /\ pc[w] \in {"del_exists", "del_remove", "del_commit"}
                     /\ req[w].image_id = id
                     /\ req[w].rowcount = 1}

(* Mutant: the early return for a missing row is lost.                    *)
RowMissing_falls_through(w, r) ==
    Goto(w, r, "del_delete")

(* handle_delete_image, lines 279-282: the SELECT returned no row.         *)
RowMissing(w, r) ==
    delete_image(w, [r EXCEPT !.conn = "closed"], FALSE)

(* delete_image and handle_delete_image, lines 271-285: the connection is  *)
(* obtained (None: return False) and the row is looked up; no row, or an   *)
(* exception, ends the request with False after a rollback.                *)
handle_delete_image(w, r) ==
    LET c == [r EXCEPT !.conn = "open"]
    IN \/ /\ faults' = faults
          /\ IF RowsById(r.image_id) = {}
               THEN RowMissing(w, c)
               ELSE \E row \in RowsById(r.image_id) :
                       Goto(w, [c EXCEPT !.found = TRUE,
                                         !.filename = row.filename], "del_delete")
       \/ /\ CanFail
          /\ faults' = faults + 1
          /\ \/ delete_image(w, [r EXCEPT !.fault = "connect"], FALSE)
             \/ DeleteRaised(w, c, "select")

(* A delete request for image_id reaches the controller.                   *)
DeleteLookup(w, image_id) ==
    /\ Free(w)
    /\ handle_delete_image(w, [NoReq EXCEPT !.op = "delete",
                                            !.image_id = image_id,
                                            !.after = (okDeletes[image_id] > 0)])
    /\ started' = started + 1
    /\ UNCHANGED <<table, files, nextId, nextToken, okDeletes>>

(* handle_delete_image, line 287: DELETE FROM images WHERE id = %s.  The   *)
(* statement waits while another transaction holds the row's lock, then    *)
(* deletes the row if it is still committed (READ COMMITTED); the number   *)
(* of rows it deleted is not looked at.                                    *)
DeleteExecute(w) ==
    /\ pc[w] = "del_delete"
    /\ \/ /\ LockHolders(req[w].image_id) \ {w} = {}
          /\ Goto(w, [req[w] EXCEPT !.rowcount = Cardinality(RowsById(req[w].image_id))],
                  "del_exists")
          /\ faults' = faults
       \/ /\ CanFail
          /\ faults' = faults + 1
          /\ DeleteRaised(w, req[w], "delete")
    /\ UNCHANGED <<table, files, nextId, nextToken, okDeletes, started>>

(* Mutant: the delete commits before it has tried to remove the file.     *)
DeleteExists_commits_first(w) ==
    /\ pc[w] = "del_exists"
    /\ IF req[w].filename \in files
         THEN Goto(w, [req[w] EXCEPT !.exists = TRUE], "del_commit")
         ELSE Goto(w, [req[w] EXCEPT !.exists = FALSE], "del_commit")
    /\ UNCHANGED <<table, files, nextId, nextToken, okDeletes, faults, started>>

(* Mutant: a file that is not on disk ends the delete with False.         *)
DeleteExists_missing_fails(w) ==
    /\ pc[w] = "del_exists"
    /\ IF req[w].filename \in files
         THEN Goto(w, [req[w] EXCEPT !.exists = TRUE], "del_remove")
         ELSE delete_image(w, [req[w] EXCEPT !.conn = "closed"], FALSE)
    /\ UNCHANGED <<table, files, nextId, nextToken, okDeletes, faults, started>>

(* handle_delete_image, lines 290-294: os.path.exists(file_path); a file   *)
(* that is not there is skipped.                                           *)
DeleteExists(w) ==
    /\ pc[w] = "del_exists"
    /\ IF req[w].filename \in files
         THEN Goto(w, [req[w] EXCEPT !.exists = TRUE], "del_remove")
         ELSE Goto(w, [req[w] EXCEPT !.exists = FALSE], "del_commit")
    /\ UNCHANGED <<table, files, nextId, nextToken, okDeletes, faults, started>>

(* Mutant: the file is left on disk.                                      *)
RemoveFile_kept(fs, name) == fs

(* os.remove(file_path): the file is gone afterwards.                      *)
RemoveFile(fs, name) == fs \ {name}

(* Mutant: an exception of os.remove reaches the outer handler, which     *)
(* rolls back and returns False.                                           *)
DeleteRemove_error_aborts(w) ==
    /\ pc[w] = "del_remove"
    /\ \/ /\ faults' = faults
          /\ IF req[w].filename \in files
               THEN /\ files' = RemoveFile(files, req[w].filename)
                    /\ Goto(w, [req[w] EXCEPT !.remove = "removed"], "del_commit")
               ELSE /\ files' = files
                    /\ Goto(w, [req[w] EXCEPT !.remove = "missing"], "del_commit")
       \/ /\ CanFail
          /\ faults' = faults + 1
          /\ files' = files
          /\ DeleteRaised(w, [req[w] EXCEPT !.remove = "oserror"], "none")
    /\ UNCHANGED <<table, nextId, nextToken, okDeletes, started>>

(* handle_delete_image, lines 291-296: os.remove(file_path).  Any          *)
(* exception (the file is gone by now, or the removal is refused) is       *)
(* logged and the delete goes on to commit.                                *)
DeleteRemove(w) ==
    /\ pc[w] = "del_remove"
    /\ \/ /\ faults' = faults
          /\ IF req[w].filename \in files
               THEN /\ files' = RemoveFile(files, req[w].filename)
                    /\ Goto(w, [req[w] EXCEPT !.remove = "removed"], "del_commit")
               ELSE /\ files' = files
                    /\ Goto(w, [req[w] EXCEPT !.remove = "missing"], "del_commit")
       \/ /\ CanFail
          /\ faults' = faults + 1
          /\ files' = files
          /\ Goto(w, [req[w] EXCEPT !.remove = "oserror"], "del_commit")
    /\ UNCHANGED <<table, nextId, nextToken, okDeletes, started>>

(* Mutant: the DELETE has no WHERE clause.                                *)
CommitDelete_every_row(t, id, rowcount) ==
    IF rowcount = 1 THEN {} ELSE t

(* conn.commit() of a transaction that deleted rowcount rows of this id.   *)
CommitDelete(t, id, rowcount) ==
    IF rowcount = 1 THEN {r \in t : r.id # id} ELSE t

(* Mutant: the deletion takes effect although the commit raised.          *)
RollbackDelete_lost(t, id, rowcount) ==
    IF rowcount = 1 THEN {r \in t : r.id # id} ELSE t

(* conn.rollback() of that transaction: the table is as it was.            *)
RollbackDelete(t, id, rowcount) == t

(* handle_delete_image, lines 298-318: commit and return True; an          *)
(* exception rolls the deletion back and returns False.  The connection is *)
(* closed on both paths.                                                   *)
DeleteCommit(w) ==
    /\ pc[w] = "del_commit"
    /\ \/ /\ table' = CommitDelete(table, req[w].image_id, req[w].rowcount)
          /\ okDeletes' = [okDeletes EXCEPT ![req[w].image_id] = @ + 1]
          /\ delete_image(w, [req[w] EXCEPT !.conn = "closed"], TRUE)
          /\ faults' = faults
       \/ /\ CanFail
          /\ faults' = faults + 1
          /\ table' = RollbackDelete(table, req[w].image_id, req[w].rowcount)
          /\ okDeletes' = okDeletes
          /\ DeleteRaised(w, req[w], "commit")
    /\ UNCHANGED <<files, nextId, nextToken, started>>

Next ==
    \/ \E w \in Workers, p \in UploadInputs, n \in OriginalNames : handle_post(w, p, n)
    \/ \E w \in Workers : SaveImageInsert(w)
    \/ \E w \in Workers : SaveImageCommit(w)
    \/ \E w \in Workers, i \in Ids : DeleteLookup(w, i)
    \/ \E w \in Workers : DeleteExecute(w)
    \/ \E w \in Workers : DeleteExists(w)
    \/ \E w \in Workers : DeleteRemove(w)
    \/ \E w \in Workers : DeleteCommit(w)

Spec == Init /\ [][Next]_vars

(***************************************************************************)
(* Listing: ImageListController.handle_get -> ImageService.get_images_page.*)
(* The listing is specified over a table that holds any number of rows up  *)
(* to MaxRows; a row of it carries the upload_time column, which the       *)
(* listing sorts by.                                                       *)
(***************************************************************************)
(* The page size handle_get passes to get_images_page.                     *)
PER_PAGE == 10

(* The page numbers requested and the page sizes get_images_page is called *)
(* with.                                                                   *)
Pages == (0 - 1)..MaxPage
PerPages == {4, PER_PAGE}

(* A row of the images table with its upload_time.                         *)
StoredRow(id, upload_time) ==
    [id |-> id, filename |-> [token |-> id, ext |-> ".jpg"],
     original_name |-> "cat.jpg", file_type |-> JPEG, upload_time |-> upload_time]

(* The tables of n rows inserted one after the other: upload_time grows    *)
(* with the id, and the first two rows may have got the same timestamp.    *)
StoredTable(n, tie) ==
    {StoredRow(i, IF tie /\ i = 1 THEN 2 ELSE i) : i \in 1..n}

InitList ==
    /\ \E n \in 0..MaxRows, tie \in BOOLEAN :
          /\ table = StoredTable(n, tie)
          /\ nextId = n + 1
          /\ nextToken = n + 1
    /\ files = Filenames
    /\ pc = [w \in Workers |-> "idle"]
    /\ req = [w \in Workers |-> NoReq]
    /\ last = NoReq
    /\ okDeletes = [i \in Ids |-> 0]
    /\ faults = 0
    /\ started = 0

(* ORDER BY upload_time DESC: the orders the engine may return the rows    *)
(* of t in; rows of equal upload_time come in any order.                   *)
RECURSIVE OrderByUploadTimeDesc(_)
OrderByUploadTimeDesc(t) ==
    IF t = {} THEN {<<>>}
    ELSE UNION { { <<r>> \o s : s \in OrderByUploadTimeDesc(t \ {r}) } :
                 r \in {x \in t : \A y \in t : y.upload_time <= x.upload_time} }

(* Mutant: the OFFSET of the page query is ignored.                      *)
LimitOffset_first_page(s, limit, offset) ==
    [i \in 1..(IF Len(s) < limit THEN Len(s) ELSE limit) |-> s[i]]

(* LIMIT limit OFFSET offset of an ordered result.                         *)
LimitOffset(s, limit, offset) ==
    [i \in 1..(IF Len(s) - offset < 0 THEN 0
               ELSE IF Len(s) - offset < limit THEN Len(s) - offset
               ELSE limit) |-> s[offset + i]]

(* Mutant: the quotient is rounded down.                                 *)
ceil_rounds_down(total, per_page) == total \div per_page

(* ceil(total / per_page) for a positive per_page.                         *)
ceil(total, per_page) == (total + per_page - 1) \div per_page

(* get_images_page, lines 249-260: the pagination block.                   *)
pagination_of(page, per_page, total) ==
    LET total_pages == IF per_page # 0
                         THEN (IF ceil(total, per_page) > 1
                                 THEN ceil(total, per_page) ELSE 1)
                         ELSE 1
    IN Pagination(page, per_page, total, total_pages, page > 1, page < total_pages)

(* Mutant: without a connection the block is computed as for an empty     *)
(* table.                                                                  *)
no_connection_pagination_computed(page, per_page) ==
    pagination_of(page, per_page, 0)

(* get_images_page, lines 208-214: the pagination block returned when      *)
(* get_connection() gives no connection.                                   *)
no_connection_pagination(page, per_page) ==
    Pagination(page, per_page, 0, 1, FALSE, FALSE)

(* handle_get, lines 29-36: the result of get_images_page is answered 200. *)
ListingReturned(w, r, images, pagination) ==
    json_response(w, [r EXCEPT !.images = images, !.pagination = pagination],
                  200, "success")

(* handle_get, lines 37-42: an exception that leaves get_images_page is    *)
(* answered 500.                                                           *)
ListingRaised(w, r, where) ==
    json_response(w, [r EXCEPT !.fault = where], 500, "Error getting image list")

(* handle_get and get_images_page, lines 203-214: the page is clamped to   *)
(* 1, the offset computed and the connection obtained; without a           *)
(* connection the result is an empty page.  A listing writes nothing, so   *)
(* two listings do not affect each other: the model runs one at a time.    *)
handle_get(w, page, per_page) ==
    /\ Free(w)
    /\ \A v \in Workers : req[v].op # "list"
    /\ LET p == IF page < 1 THEN 1 ELSE page
           r == [NoReq EXCEPT !.op = "list", !.requested = page, !.page = p,
                              !.per_page = per_page, !.offset = (p - 1) * per_page]
       IN \/ /\ Goto(w, [r EXCEPT !.conn = "open"], "list_count")
             /\ faults' = faults
          \/ /\ CanFail
             /\ faults' = faults + 1
             /\ ListingReturned(w, [r EXCEPT !.fault = "connect"], <<>>,
                                no_connection_pagination(p, per_page))
    /\ started' = started + 1
    /\ UNCHANGED <<table, files, nextId, nextToken, okDeletes>>

(* get_images_page, lines 216-219: conn.cursor() and the COUNT query,    *)
(* both outside every try block: an exception leaves get_images_page with  *)
(* the connection open.                                                    *)
ListCount(w) ==
    /\ pc[w] = "list_count"
    /\ \/ /\ Goto(w, [req[w] EXCEPT !.total = Cardinality(table)], "list_select")
          /\ faults' = faults
       \/ /\ CanFail
          /\ faults' = faults + 1
          /\ ListingRaised(w, req[w], "count")
    /\ UNCHANGED <<table, files, nextId, nextToken, okDeletes, started>>

(* get_images_page, lines 221-260: the page SELECT in try/finally, which   *)
(* closes the cursor and the connection and lets an exception through;     *)
(* then the items (their ids here) and the pagination block.               *)
ListSelect(w) ==
    /\ pc[w] = "list_select"
    /\ \/ /\ \E s \in OrderByUploadTimeDesc(table) :
                LET rows == LimitOffset(s, req[w].per_page, req[w].offset)
                IN ListingReturned(w, [req[w] EXCEPT !.conn = "closed"],
                                   [i \in 1..Len(rows) |-> rows[i].id],
                                   pagination_of(req[w].page, req[w].per_page,
                                                 req[w].total))
          /\ faults' = faults
       \/ /\ CanFail
          /\ faults' = faults + 1
          /\ ListingRaised(w, [req[w] EXCEPT !.conn = "closed"], "select")
    /\ UNCHANGED <<table, files, nextId, nextToken, okDeletes, started>>

NextList ==
    \/ \E w \in Workers, page \in Pages, per_page \in PerPages :
          handle_get(w, page, per_page)
    \/ \E w \in Workers : ListCount(w)
    \/ \E w \in Workers : ListSelect(w)

SpecList == InitList /\ [][NextList]_vars

(***************************************************************************)
(* The Validator, ImageService.validate_bytes, gate by gate: a call of it  *)
(* on each buffer of ValidatorInputs, one step per gate.  req[w].gates     *)
(* lists the gates the call has run.                                       *)
(***************************************************************************)
Sizes == {2048, MAX_FILE_SIZE, MAX_FILE_SIZE + 1}
Probes == {"ok", "unidentified", "corrupt"}
Formats == {JPEG, PNG, GIF, BMP, ""}

ValidatorInputs ==
    {Payload(size, probe, reopen, format) :
        size \in Sizes, probe \in Probes, reopen \in BOOLEAN, format \in Formats}

InitValidate ==
    /\ table = {}
    /\ files = {}
    /\ nextId = 1
    /\ nextToken = 1
    /\ \E p \in ValidatorInputs, n \in OriginalNames :
          req = [w \in Workers |->
                    IF w = 1 THEN [NoReq EXCEPT !.op = "validate", !.payload = p,
                                                !.original_name = n]
                    ELSE NoReq]
    /\ pc = [w \in Workers |-> IF w = 1 THEN "validate_size" ELSE "idle"]
    /\ last = NoReq
    /\ okDeletes = [i \in Ids |-> 0]
    /\ faults = 0
    /\ started = 1

(* raise ValueError(message): validate_bytes ends; _save_via_service       *)
(* answers 400 with the message.                                           *)
ValidateRaised(w, r, message) ==
    /\ json_response(w, r, 400, message)
    /\ UNCHANGED <<table, files, nextId, nextToken, okDeletes, faults, started>>

(* The gate passed: validate_bytes goes on to the next statement.          *)
ValidatePassed(w, r, label) ==
    /\ Goto(w, r, label)
    /\ UNCHANGED <<table, files, nextId, nextToken, okDeletes, faults, started>>

(* Mutant: the size gate is missing.                                      *)
ValidateSize_skipped(w) ==
    /\ pc[w] = "validate_size"
    /\ ValidatePassed(w, [req[w] EXCEPT !.gates = Append(@, "size")], "validate_verify")

(* validate_bytes, lines 44-46: the size gate.                             *)
ValidateSize(w) ==
    /\ pc[w] = "validate_size"
    /\ LET r == [req[w] EXCEPT !.gates = Append(@, "size")]
       IN IF r.payload.size > MAX_FILE_SIZE
            THEN ValidateRaised(w, r, "File exceeds maximum file size: 10485760 bytes.")
            ELSE ValidatePassed(w, r, "validate_verify")

(* validate_bytes, lines 48-56: Image.open and verify() on a probe.        *)
ValidateVerify(w) ==
    /\ pc[w] = "validate_verify"
    /\ LET r == [req[w] EXCEPT !.gates = Append(@, "verify")]
       IN IF r.payload.probe = "unidentified"
            THEN ValidateRaised(w, r, "Invalid image file.")
          ELSE IF r.payload.probe # "ok"
            THEN ValidateRaised(w, r, "Invalid or corrupted image file.")
          ELSE ValidatePassed(w, r, "validate_reopen")

(* validate_bytes, lines 58-62: the image is opened again.                 *)
ValidateReopen(w) ==
    /\ pc[w] = "validate_reopen"
    /\ LET r == [req[w] EXCEPT !.gates = Append(@, "reopen")]
       IN IF ~r.payload.reopen
            THEN ValidateRaised(w, r, "Failed to reopen image.")
            ELSE ValidatePassed(w, r, "validate_format")

(* validate_bytes, lines 64-69: the format gate; past it the image is      *)
(* returned to handle, which calls save_image.                             *)
ValidateFormat(w) ==
    /\ pc[w] = "validate_format"
    /\ LET r == [req[w] EXCEPT !.gates = Append(@, "format")]
       IN IF r.payload.format \notin ALLOWED_EXTENSIONS
            THEN ValidateRaised(w, r, "Image format " \o r.payload.format
                                          \o " is not supported.")
            ELSE ValidatePassed(w, r, "save_image")

NextValidate ==
    \/ \E w \in Workers : ValidateSize(w)
    \/ \E w \in Workers : ValidateVerify(w)
    \/ \E w \in Workers : ValidateReopen(w)
    \/ \E w \in Workers : ValidateFormat(w)

SpecValidate == InitValidate /\ [][NextValidate]_vars

(***************************************************************************)
(* Ingest alone: uploads with the steps of save_image, on stores that      *)
(* start empty.  The buffers uploaded are one for each outcome of the      *)
(* Validator: an image of each allowed format at the size limit, and a     *)
(* buffer failing at each gate.                                            *)
(***************************************************************************)
IngestInputs ==
    { Payload(MAX_FILE_SIZE, "ok", TRUE, JPEG),
      Payload(MAX_FILE_SIZE, "ok", TRUE, PNG),
      Payload(MAX_FILE_SIZE, "ok", TRUE, GIF),
      Payload(MAX_FILE_SIZE + 1, "ok", TRUE, JPEG),
      Payload(MAX_FILE_SIZE + 1, "unidentified", TRUE, ""),
      Payload(12, "unidentified", TRUE, ""),
      Payload(2048, "corrupt", TRUE, PNG),
      Payload(2048, "ok", FALSE, GIF),
      Payload(2048, "ok", TRUE, BMP) }

NextIngest ==
    \/ \E w \in Workers, p \in IngestInputs, n \in OriginalNames : handle_post(w, p, n)
    \/ \E w \in Workers : SaveImageInsert(w)
    \/ \E w \in Workers : SaveImageCommit(w)

SpecIngest == Init /\ [][NextIngest]_vars

(***************************************************************************)
(* Ingest under client-supplied names: uploads of valid images whose       *)
(* original_name is an ordinary name or a path that leaves upload_dir.     *)
(***************************************************************************)
ClientNames == {"cat.jpg", "../../etc/passwd.png"}

NamedInputs ==
    { Payload(2048, "ok", TRUE, JPEG),
      Payload(2048, "ok", TRUE, GIF) }

NextNamed ==
    \/ \E w \in Workers, p \in NamedInputs, n \in ClientNames : handle_post(w, p, n)
    \/ \E w \in Workers : SaveImageInsert(w)
    \/ \E w \in Workers : SaveImageCommit(w)

SpecNamed == Init /\ [][NextNamed]_vars

(***************************************************************************)
(* Ingest of images in the colour modes a decoder reports: uploads of      *)
(* valid images of each format in direct, palette and CMYK modes.          *)
(***************************************************************************)
ModeInputs ==
    { WithMode(Payload(2048, "ok", TRUE, JPEG), mode) : mode \in {RGB, "L", "CMYK", "P"} }
    \cup { WithMode(Payload(2048, "ok", TRUE, PNG), mode) : mode \in {"RGBA", "P"} }
    \cup { WithMode(Payload(2048, "ok", TRUE, GIF), "P") }

NextModes ==
    \/ \E w \in Workers, p \in ModeInputs, n \in OriginalNames : handle_post(w, p, n)
    \/ \E w \in Workers : SaveImageInsert(w)
    \/ \E w \in Workers : SaveImageCommit(w)

SpecModes == Init /\ [][NextModes]_vars

(***************************************************************************)
(* POST /upload from the request line on: UploadController.handle_post     *)
(* with _validate_and_parse_upload, for one request of each combination    *)
(* of path, headers, form and file content.                                *)
(***************************************************************************)
HttpInputs ==
    { Http(path, multipart, content_length, parses, has_file, filename, readable) :
        path \in {"/upload", "/uploads"}, multipart \in BOOLEAN,
        content_length \in {0, 4096, MAX_FILE_SIZE + 1}, parses \in BOOLEAN,
        has_file \in BOOLEAN, filename \in {"cat.jpg", ""}, readable \in BOOLEAN }

(* The bytes of the file part: none, an image, bytes that are no image.    *)
FileInputs ==
    { Payload(0, "unidentified", TRUE, ""),
      Payload(2048, "ok", TRUE, JPEG),
      Payload(12, "unidentified", TRUE, "") }

InitPost ==
    /\ table = {}
    /\ files = {}
    /\ nextId = 1
    /\ nextToken = 1
    /\ \E h \in HttpInputs, p \in FileInputs :
          req = [w \in Workers |->
                    IF w = 1 THEN [NoReq EXCEPT !.op = "upload", !.http = h,
                                                !.payload = p,
                                                !.original_name = h.filename]
                    ELSE NoReq]
    /\ pc = [w \in Workers |-> IF w = 1 THEN "post" ELSE "idle"]
    /\ last = NoReq
    /\ okDeletes = [i \in Ids |-> 0]
    /\ faults = 0
    /\ started = 1

(* handle_post returns without having answered.                            *)
HandlerReturned(w, r) ==
    /\ last' = r
    /\ req' = [req EXCEPT ![w] = NoReq]
    /\ pc' = [pc EXCEPT ![w] = "idle"]

(* handle_post, lines 27-35, with _validate_and_parse_upload and its       *)
(* helpers, lines 63-211: each check that fails answers and makes          *)
(* handle_post return; file bytes of length zero make it return at         *)
(* "if not file_bytes"; otherwise the upload goes on to the service.       *)
PostReceived(w) ==
    /\ pc[w] = "post"
    /\ LET r == req[w]
           h == r.http
           rejected(status, message) ==
               /\ json_response(w, r, status, message)
               /\ UNCHANGED <<files, nextToken, faults>>
       IN IF h.path # "/upload" THEN rejected(404, "Not Found")
          ELSE IF ~h.multipart THEN rejected(400, "Expecting multipart/form-data")
          ELSE IF h.content_length <= 0 THEN rejected(411, "Wrong Content-Length")
          ELSE IF h.content_length > MAX_FILE_SIZE THEN rejected(413, "File is too large")
          ELSE IF ~h.parses THEN rejected(400, "Malformed multipart data")
          ELSE IF ~h.has_file THEN rejected(400, "File field not found in form")
          ELSE IF h.filename = "" THEN rejected(400, "Fail name is missing.")
          ELSE IF ~h.readable THEN rejected(500, "Failed to read file content")
          ELSE IF r.payload.size = 0
            THEN /\ HandlerReturned(w, r)
                 /\ UNCHANGED <<files, nextToken, faults>>
          ELSE post_upload(w, r)
    /\ UNCHANGED <<table, nextId, okDeletes, started>>

NextPost ==
    \/ \E w \in Workers : PostReceived(w)
    \/ \E w \in Workers : SaveImageInsert(w)
    \/ \E w \in Workers : SaveImageCommit(w)

SpecPost == InitPost /\ [][NextPost]_vars

(***************************************************************************)
(* Listing while deletes run: the first page as handle_get asks for it,    *)
(* over a table of up to MaxUploads rows that concurrent delete requests   *)
(* change.  Each statement of a listing reads the rows committed when it   *)
(* runs (READ COMMITTED, the default of the connection).                   *)
(***************************************************************************)
InitListing ==
    /\ \E n \in 0..MaxUploads :
          /\ table = StoredTable(n, FALSE)
          /\ nextId = n + 1
          /\ nextToken = n + 1
    /\ files = Filenames
    /\ pc = [w \in Workers |-> "idle"]
    /\ req = [w \in Workers |-> NoReq]
    /\ last = NoReq
    /\ okDeletes = [i \in Ids |-> 0]
    /\ faults = 0
    /\ started = 0

NextListing ==
    \/ \E w \in Workers : handle_get(w, 1, PER_PAGE)
    \/ \E w \in Workers : ListCount(w)
    \/ \E w \in Workers : ListSelect(w)
    \/ \E w \in Workers, i \in Ids : DeleteLookup(w, i)
    \/ \E w \in Workers : DeleteExecute(w)
    \/ \E w \in Workers : DeleteExists(w)
    \/ \E w \in Workers : DeleteRemove(w)
    \/ \E w \in Workers : DeleteCommit(w)

SpecListing == InitListing /\ [][NextListing]_vars

(***************************************************************************)
(* Routing of DELETE requests: ImageHostingHandler.do_DELETE.  A request   *)
(* path is a sequence of characters.                                       *)
(***************************************************************************)
Digits == <<"0", "1", "2", "3", "4", "5", "6", "7", "8", "9">>

IsDigit(c) == \E i \in 1..Len(Digits) : Digits[i] = c

DigitValue(c) == (CHOOSE i \in 1..Len(Digits) : Digits[i] = c) - 1

(* int(match.group(1)): the decimal value of a sequence of digits.         *)
RECURSIVE int(_)
int(ds) ==
    IF ds = <<>> THEN 0
    ELSE 10 * int(SubSeq(ds, 1, Len(ds) - 1)) + DigitValue(ds[Len(ds)])

(* urlparse(self.path).path: the path ends before the first "?" or "#".    *)
urlparse_path(url) ==
    LET cuts == {i \in 1..Len(url) : url[i] \in {"?", "#"}}
    IN IF cuts = {} THEN url
       ELSE SubSeq(url, 1, (CHOOSE i \in cuts : \A j \in cuts : i <= j) - 1)

DeletePrefix == <<"/", "d", "e", "l", "e", "t", "e", "/">>

NoMatch == <<>>

(* Mutant: the pattern must match the whole path.                          *)
re_match_whole_path(path) ==
    IF /\ Len(path) > Len(DeletePrefix)
       /\ SubSeq(path, 1, Len(DeletePrefix)) = DeletePrefix
       /\ \A i \in (Len(DeletePrefix) + 1)..Len(path) : IsDigit(path[i])
      THEN SubSeq(path, Len(DeletePrefix) + 1, Len(path))
      ELSE NoMatch

(* re.match(r'/delete/(\d+)', path): the pattern is matched at the start   *)
(* of the path and nothing is asked of what follows the match; the group   *)
(* is the longest run of digits after the prefix, NoMatch without one.     *)
re_match(path) ==
    LET first == Len(DeletePrefix) + 1
    IN IF /\ Len(path) >= first
          /\ SubSeq(path, 1, Len(DeletePrefix)) = DeletePrefix
          /\ IsDigit(path[first])
         THEN LET end == CHOOSE e \in first..Len(path) :
                            /\ \A i \in first..e : IsDigit(path[i])
                            /\ e < Len(path) => ~IsDigit(path[e + 1])
              IN SubSeq(path, first, end)
         ELSE NoMatch

(* do_DELETE: a match hands the id to the delete controller, any other     *)
(* path is answered 404 "Not Found".                                       *)
do_DELETE(w, path) ==
    /\ Free(w)
    /\ LET r == [NoReq EXCEPT !.op = "delete", !.path = path]
           match == re_match(urlparse_path(path))
       IN IF match # NoMatch
            THEN LET image_id == int(match)
                 IN handle_delete_image(w,
                        [r EXCEPT !.image_id = image_id,
                                  !.after = (/\ image_id \in Ids
                                             /\ okDeletes[image_id] > 0)])
            ELSE /\ json_response(w, r, 404, "Not Found")
                 /\ faults' = faults
    /\ started' = started + 1
    /\ UNCHANGED <<table, files, nextId, nextToken, okDeletes>>

(* The request paths: the delete prefix followed by an id, by an id and    *)
(* more, or by no id, and paths that only contain or resemble the prefix.  *)
DeletePaths ==
    {DeletePrefix \o t : t \in {<<"1">>, <<"2">>, <<"1", "2">>,
                                <<"2", "?", "x">>,
                                <<"1", "x">>, <<"2", "/", "1">>,
                                <<>>, <<"x", "1">>}}
    \cup {<<"/", "x">> \o DeletePrefix \o <<"1">>}

NextRoute ==
    \/ \E w \in Workers, path \in DeletePaths : do_DELETE(w, path)
    \/ \E w \in Workers : DeleteExecute(w)
    \/ \E w \in Workers : DeleteExists(w)
    \/ \E w \in Workers : DeleteRemove(w)
    \/ \E w \in Workers : DeleteCommit(w)

SpecRoute == InitListing /\ [][NextRoute]_vars

(***************************************************************************)
(* Properties.                                                             *)
(***************************************************************************)
DeletePcs == {"del_delete", "del_exists", "del_remove", "del_commit"}

(* Worker w takes a step of a delete request.                              *)
DeleteStep(w) ==
    \/ pc[w] \in DeletePcs /\ pc'[w] # pc[w]
    \/ pc[w] = "idle" /\ pc'[w] = "del_delete"

(* A delete request for id i arrives and its lookup runs in this step.     *)
DeleteArrives(i) ==
    /\ started' = started + 1
    /\ \/ pc' = pc /\ last'.op = "delete" /\ last'.image_id = i
       \/ \E w \in Workers : /\ pc[w] = "idle" /\ pc'[w] = "del_delete"
                             /\ req'[w].image_id = i

(* C1: whenever a row is committed to the images table, a file with the   *)
(* row's filename is already in upload_dir (validate, write file, insert   *)
(* row, in that order), in every interleaving of requests.                 *)
C1_FileBeforeRow ==
    [][\A r \in table' \ table : r.filename \in files /\ r.filename \in files']_vars

C1_Witness ==
    /\ last.op = "upload" /\ last.inserted
    /\ \E r \in table : r.filename = last.filename /\ r.filename \in files
    /\ \E w \in Workers : pc[w] # "idle"

(* C2: an upload whose metadata insert failed (no connection, INSERT or   *)
(* commit raised) is never answered with success: a 200 response means     *)
(* the row was committed.                                                  *)
C2_SuccessMeansRow ==
    (last.op = "upload" /\ last.status = 200) => last.inserted

(* C3: when writing the image file fails, the request ends with a server  *)
(* error, the insert step is never reached and no row references the       *)
(* generated filename.                                                     *)
C3_WriteFailureNoRow ==
    /\ (last.op = "upload" /\ last.fault = "write") =>
          /\ last.status = 500
          /\ ~last.inserted
          /\ last.filename \notin Filenames
    /\ \A w \in Workers : pc[w] \in {"insert", "commit"} => req[w].fault = "none"

C3_Witness ==
    /\ last.op = "upload" /\ last.fault = "write" /\ last.status = 500
    /\ last.filename \in files
    /\ table # {}

(* C4: a delete of an existing id in which no step fails is answered      *)
(* Deleted, and then the row and its file are absent; no step of a delete  *)
(* touches another row or another file; a delete of the same id that       *)
(* arrives after a Deleted answer is answered NotFound.                    *)
C4_DeleteRemovesExactlyOne ==
    /\ []((last.op = "delete" /\ last.found /\ last.fault = "none"
               /\ last.remove # "oserror") =>
             /\ last.status = 200
             /\ RowsById(last.image_id) = {}
             /\ last.filename \notin files)
    /\ []((last.op = "delete" /\ last.after) => last.status = 404)
    /\ [][\A w \in Workers : DeleteStep(w) =>
             /\ table' \subseteq table
             /\ \A r \in table \ table' : r.id = req[w].image_id
             /\ files' \subseteq files
             /\ \A f \in files \ files' : f = req[w].filename]_vars

C4_Witness ==
    /\ last.op = "delete" /\ last.after /\ last.status = 404
    /\ okDeletes[last.image_id] = 1
    /\ RowsById(last.image_id) = {}
    /\ \E r \in table : r.id # last.image_id /\ r.filename \in files

(* C5: a delete of an id that has no row is answered NotFound in the step *)
(* of its lookup, the table and upload_dir are unchanged by it, and the    *)
(* request ends there (no file removal is attempted).                      *)
C5_MissingIdChangesNothing ==
    [][\A i \in Ids :
         (DeleteArrives(i) /\ RowsById(i) = {} /\ faults' = faults) =>
            /\ pc' = pc
            /\ last'.status = 404
            /\ ~last'.found
            /\ table' = table
            /\ files' = files]_vars

C5_Witness ==
    /\ last.op = "delete" /\ ~last.found /\ last.fault = "none"
    /\ last.status = 404
    /\ table # {}
    /\ Filenames \subseteq files

(* C6: a delete in which issuing the DELETE, removing the file or the     *)
(* commit raised is answered as DeletionFailed with a 5xx status, never    *)
(* with 404.                                                               *)
C6_ExceptionIsServerError ==
    (last.op = "delete" /\ (last.fault \in {"delete", "commit"} \/ last.remove = "oserror"))
        => last.status >= 500

(* C7, as claimed: after an exception in a delete that found its row      *)
(* (DELETE, file removal or commit), the row is still in the table.        *)
C7_AnyExceptionKeepsRow ==
    (/\ last.op = "delete" /\ last.found /\ last.rowcount = 1
     /\ (last.fault \in {"delete", "commit"} \/ last.remove = "oserror"))
        => RowsById(last.image_id) # {}

(* C7, amended: an exception while issuing the DELETE or committing rolls *)
(* the deletion back: that step leaves the table and upload_dir as they    *)
(* were, the row this delete had deleted is present afterwards and a file  *)
(* it removed stays removed; an exception while removing the file does     *)
(* not roll back: the delete goes on to commit.                            *)
C7_RollbackKeepsRow ==
    /\ []((/\ last.op = "delete" /\ last.fault = "commit"
           /\ last.rowcount = 1) => RowsById(last.image_id) # {})
    /\ [][\A w \in Workers :
            /\ (pc[w] \in {"del_delete", "del_commit"} /\ pc'[w] = "idle"
                    /\ faults' # faults) =>
                  /\ table' = table
                  /\ files' = files
                  /\ last'.fault \in {"delete", "commit"}
            /\ (pc[w] = "del_remove" /\ pc'[w] # pc[w]) => pc'[w] = "del_commit"]_vars

C7_Witness ==
    /\ last.op = "delete" /\ last.fault = "commit" /\ last.remove = "removed"
    /\ RowsById(last.image_id) # {}
    /\ last.filename \notin files

(* C8: of two concurrent deletes of one id that both saw the row, the one *)
(* that finds the file already removed does not end in an error: it is     *)
(* answered Deleted and the row and the file are absent; a delete whose    *)
(* lookup runs after a Deleted answer for the id is answered NotFound.     *)
C8_ConcurrentDeletesBenign ==
    /\ []((/\ last.op = "delete" /\ last.found /\ last.fault = "none"
           /\ (~last.exists \/ last.remove = "missing")) =>
             /\ last.status = 200
             /\ RowsById(last.image_id) = {}
             /\ last.filename \notin files)
    /\ [][\A i \in Ids : (DeleteArrives(i) /\ okDeletes[i] > 0) =>
             (pc' = pc /\ last'.status = 404)]_vars

C8_Witness ==
    /\ last.op = "delete" /\ last.found /\ last.rowcount = 0 /\ ~last.exists
    /\ last.status = 200
    /\ okDeletes[last.image_id] = 2
    /\ RowsById(last.image_id) = {}
    /\ last.filename \notin files

(* C9: for every id at most one delete is answered Deleted (every other   *)
(* delete of that id is answered NotFound).                                *)
C9_OnlyOneDeleted ==
    \A i \in Ids : okDeletes[i] <= 1

(* C10: when the file of an existing row is not on disk, the delete skips *)
(* the removal without an error, and its commit removes the row and is     *)
(* answered Deleted.                                                       *)
C10_MissingFileStillDeleted ==
    [][\A w \in Workers :
         /\ (pc[w] = "del_exists" /\ req[w].filename \notin files /\ pc'[w] # pc[w]) =>
               /\ pc'[w] = "del_commit"
               /\ req'[w].remove = "none"
               /\ UNCHANGED <<table, files, last>>
         /\ (/\ pc[w] = "del_commit" /\ ~req[w].exists /\ req[w].remove = "none"
             /\ pc'[w] # pc[w] /\ faults' = faults) =>
               /\ last'.status = 200
               /\ \A r \in table' : r.id # req[w].image_id]_vars

C10_Witness ==
    /\ last.op = "delete" /\ last.found /\ last.rowcount = 1
    /\ ~last.exists /\ last.remove = "none" /\ last.fault = "none"
    /\ last.status = 200
    /\ okDeletes[last.image_id] = 1
    /\ RowsById(last.image_id) = {}

(* C11: when removing the file raises for a reason other than absence,    *)
(* the delete goes on to commit: the file stays on disk, the row deletion  *)
(* is committed and the delete is answered Deleted.                        *)
C11_RemoveFailureStillCommits ==
    [][\A w \in Workers :
         /\ (pc[w] = "del_remove" /\ pc'[w] # pc[w] /\ faults' # faults) =>
               /\ pc'[w] = "del_commit"
               /\ req'[w].remove = "oserror"
               /\ (req[w].filename \in files => req[w].filename \in files')
               /\ UNCHANGED <<table, files, last>>
         /\ (/\ pc[w] = "del_commit" /\ req[w].remove = "oserror"
             /\ pc'[w] # pc[w] /\ faults' = faults) =>
               /\ last'.status = 200
               /\ files' = files
               /\ \A r \in table' : r.id # req[w].image_id]_vars

C11_Witness ==
    /\ last.op = "delete" /\ last.remove = "oserror" /\ last.rowcount = 1
    /\ last.status = 200
    /\ RowsById(last.image_id) = {}
    /\ last.filename \in files

(* C12: when every request received has been answered and no disk or      *)
(* database step has failed, the filenames of the table are exactly the    *)
(* files of upload_dir.                                                    *)
C12_NoOrphansWithoutFailures ==
    (faults = 0 /\ \A w \in Workers : pc[w] = "idle") => Filenames = files

C12_Witness ==
    /\ faults = 0 /\ \A w \in Workers : pc[w] = "idle"
    /\ \E i \in Ids : okDeletes[i] > 0
    /\ table # {}
    /\ Filenames = files

(* C13: get_images_page never raises: whether the connection cannot be    *)
(* obtained or the COUNT or the page SELECT fails on an obtained           *)
(* connection, it returns a listing result, which handle_get answers 200   *)
(* (handle_get answers 500 only for an exception).                         *)
C13_ListPageNeverThrows ==
    last.op = "list" => last.status = 200

(* C14: when a request has ended, by a return or by an exception, the     *)
(* connection it obtained has been closed: no answered request has left    *)
(* its connection open.                                                    *)
C14_ConnectionReleased ==
    last.conn # "open"

(* A listing that was answered with the result of the two queries.         *)
ListingAnswered ==
    last.op = "list" /\ last.fault = "none"

(* C19: for every page >= 1, per_page > 0 and table of total rows, the    *)
(* pagination block of get_images_page has total = the number of rows,     *)
(* total_pages = max(1, ceil(total / per_page)) (the least n >= 1 with     *)
(* n * per_page >= total), has_prev = (page > 1),                          *)
(* has_next = (page < total_pages) and current_page = page.                *)
C19_PaginationBlock ==
    (ListingAnswered /\ last.requested >= 1 /\ last.per_page > 0) =>
        LET pg == last.pagination
        IN /\ pg.total = Cardinality(table)
           /\ pg.per_page = last.per_page
           /\ pg.total_pages >= 1
           /\ pg.total_pages * pg.per_page >= pg.total
           /\ pg.total_pages > 1 => (pg.total_pages - 1) * pg.per_page < pg.total
           /\ pg.has_prev = (last.requested > 1)
           /\ pg.has_next = (last.requested < pg.total_pages)
           /\ pg.current_page = last.requested

C19_Witness ==
    /\ ListingAnswered /\ last.status = 200
    /\ last.requested = 2 /\ last.per_page = 4
    /\ Cardinality(table) = 9
    /\ last.pagination.total_pages = 3
    /\ last.pagination.has_prev /\ last.pagination.has_next

(* s lists every row of t once, newest upload_time first.                  *)
IsOrderedByUploadTimeDesc(s, t) ==
    /\ Len(s) = Cardinality(t)
    /\ {s[i] : i \in 1..Len(s)} = t
    /\ \A i \in 1..(Len(s) - 1) : s[i].upload_time >= s[i + 1].upload_time

(* C20: get_images_page treats a page below 1 as page 1 and returns       *)
(* exactly the rows at positions (page-1)*per_page+1 ..                    *)
(* min(page*per_page, total) of the table ordered by upload_time           *)
(* descending, that is min(per_page, max(0, total - (page-1)*per_page))    *)
(* items; with the offset at or past total the list is empty and the       *)
(* request is still answered 200.                                          *)
C20_PageRows ==
    ListingAnswered =>
        LET page == IF last.requested < 1 THEN 1 ELSE last.requested
            total == Cardinality(table)
            first == (page - 1) * last.per_page + 1
            rest == total - (page - 1) * last.per_page
            count == IF rest <= 0 THEN 0
                     ELSE IF rest < last.per_page THEN rest ELSE last.per_page
        IN /\ last.status = 200
           /\ last.pagination.current_page = page
           /\ Len(last.images) = count
           /\ (first > total) => last.images = <<>>
           /\ \E s \in OrderByUploadTimeDesc(table) :
                 /\ IsOrderedByUploadTimeDesc(s, table)
                 /\ \A i \in 1..count : last.images[i] = s[first + i - 1].id

C20_Witness ==
    /\ ListingAnswered /\ last.status = 200
    /\ last.requested = 2 /\ last.per_page = PER_PAGE
    /\ Cardinality(table) = 15
    /\ Len(last.images) = 5
    /\ last.pagination.total_pages = 2
    /\ ~last.pagination.has_next /\ last.pagination.has_prev

(* The gates of the Validator in their order, and the gate at which a      *)
(* buffer fails first (0: at none), stated from the buffer alone.          *)
GateOrder == <<"size", "verify", "reopen", "format">>

FirstFailingGate(p) ==
    IF p.size > MAX_FILE_SIZE THEN 1
    ELSE IF p.probe # "ok" THEN 2
    ELSE IF ~p.reopen THEN 3
    ELSE IF p.format \notin {JPEG, PNG, GIF} THEN 4
    ELSE 0

(* The message of each error kind.                                         *)
ExpectedMessage(p) ==
    CASE FirstFailingGate(p) = 1 -> "File exceeds maximum file size: 10485760 bytes."
      [] FirstFailingGate(p) = 2 /\ p.probe = "unidentified" -> "Invalid image file."
      [] FirstFailingGate(p) = 2 /\ p.probe = "corrupt" -> "Invalid or corrupted image file."
      [] FirstFailingGate(p) = 3 -> "Failed to reopen image."
      [] FirstFailingGate(p) = 4 /\ p.format = BMP -> "Image format BMP is not supported."
      [] FirstFailingGate(p) = 4 /\ p.format = "" -> "Image format  is not supported."
      [] FirstFailingGate(p) = 0 -> ""

(* C15: the outcome of the Validator is that of the first failing gate in *)
(* the order size, verify, re-open, format: PayloadTooLarge for an         *)
(* oversized buffer whatever its content, else InvalidImage for an         *)
(* unrecognized stream, else CorruptImage, else DecodeFailure, else        *)
(* UnsupportedFormat naming the detected tag, else success with a tag in   *)
(* {JPEG, PNG, GIF}; the gates run are exactly those up to the failing     *)
(* one, none after it.                                                     *)
C15_FirstFailingGateDecides ==
    /\ \A w \in Workers :
          /\ req[w].gates = SubSeq(GateOrder, 1, Len(req[w].gates))
          /\ pc[w] = "save_image" =>
                /\ FirstFailingGate(req[w].payload) = 0
                /\ req[w].gates = GateOrder
                /\ req[w].payload.format \in {JPEG, PNG, GIF}
                /\ validate_bytes(req[w].payload) = ""
          /\ \A g \in 1..4 :
                (req[w].op = "validate" /\ FirstFailingGate(req[w].payload) = g)
                    => Len(req[w].gates) < g
    /\ last.op = "validate" =>
          /\ FirstFailingGate(last.payload) # 0
          /\ last.gates = SubSeq(GateOrder, 1, FirstFailingGate(last.payload))
          /\ last.message = ExpectedMessage(last.payload)
          /\ last.message = validate_bytes(last.payload)

C15_Witness ==
    /\ last.op = "validate"
    /\ last.payload.size <= MAX_FILE_SIZE /\ last.payload.probe = "ok"
    /\ last.payload.reopen /\ last.payload.format = BMP
    /\ last.gates = GateOrder
    /\ last.message = "Image format BMP is not supported."

(* An upload of buffer p arrives and handle_post runs up to its first      *)
(* store access in this step.                                              *)
IngestArrives(p) ==
    /\ started' = started + 1
    /\ \/ pc' = pc /\ last'.op = "upload" /\ last'.payload = p
       \/ \E w \in Workers : /\ pc[w] = "idle" /\ pc'[w] = "insert"
                             /\ req'[w].payload = p

(* A response that reports PayloadTooLarge: 413 from the controller's      *)
(* size check, or the Validator's size error.                              *)
PayloadTooLarge(resp) ==
    \/ resp.status = 413 /\ resp.message = "File exceeds maximum file size 10485760 bytes."
    \/ resp.status = 400 /\ resp.message = "File exceeds maximum file size: 10485760 bytes."

(* C16: every buffer longer than the maximum (10 MiB) is rejected with    *)
(* PayloadTooLarge in the step it arrives, whatever its content (no        *)
(* decode error is reported for it), with no file written, no name         *)
(* generated and no row inserted; no request holding such a buffer ever    *)
(* gets to the save or insert steps.                                       *)
C16_OversizeRejectedFirst ==
    /\ [](\A w \in Workers : req[w].op = "upload" => req[w].payload.size <= 10485760)
    /\ [][\A p \in IngestInputs :
            (p.size > 10485760 /\ IngestArrives(p)) =>
                /\ pc' = pc
                /\ PayloadTooLarge(last')
                /\ last'.filename = NoFile
                /\ UNCHANGED <<table, files, nextId, nextToken>>]_vars

C16_Witness ==
    /\ last.op = "upload" /\ last.payload.size > 10485760
    /\ last.payload.probe = "unidentified"
    /\ PayloadTooLarge(last)
    /\ table # {} /\ files # {}

(* C17: an ingest that validate_bytes rejects, for any of its error       *)
(* kinds, is answered with that error and leaves the images table and      *)
(* upload_dir exactly as they were.                                        *)
C17_RejectionChangesNothing ==
    [][\A p \in IngestInputs :
          (FirstFailingGate(p) # 0 /\ IngestArrives(p)) =>
              /\ pc' = pc
              /\ last'.status \in {400, 413}
              /\ last'.status = 400 => last'.message = ExpectedMessage(p)
              /\ UNCHANGED <<table, files>>]_vars

C17_Witness ==
    /\ last.op = "upload" /\ last.status = 400
    /\ last.message = "Image format BMP is not supported."
    /\ table # {} /\ files = Filenames

(* The canonical extension of each allowed format.                         *)
CanonicalExtension(fmt) ==
    CASE fmt = "JPEG" -> ".jpg"
      [] fmt = "PNG" -> ".png"
      [] fmt = "GIF" -> ".gif"

(* C18: a buffer within the size limit that decodes to an allowed format  *)
(* is ingested (answered 200 with its row committed when no store step     *)
(* fails) under a generated filename whose extension is the canonical one  *)
(* of its format, with that format as the row's file_type; no file and no  *)
(* row ever has the fallback extension .img.                               *)
C18_CanonicalExtension ==
    /\ \A w \in Workers : pc[w] \in {"insert", "commit"} =>
          /\ req[w].payload.format \in {"JPEG", "PNG", "GIF"}
          /\ req[w].filename.ext = CanonicalExtension(req[w].payload.format)
    /\ \A r \in table :
          /\ r.file_type \in {"JPEG", "PNG", "GIF"}
          /\ r.filename.ext = CanonicalExtension(r.file_type)
    /\ \A f \in files : f.ext \in {".jpg", ".png", ".gif"}
    /\ (last.op = "upload" /\ FirstFailingGate(last.payload) = 0) =>
          /\ last.filename.ext = CanonicalExtension(last.payload.format)
          /\ last.fault = "none" =>
                /\ last.status = 200 /\ last.inserted
                /\ last.filename \in files
                /\ \E r \in table : /\ r.filename = last.filename
                                    /\ r.file_type = last.payload.format

C18_Witness ==
    /\ last.op = "upload" /\ last.status = 200 /\ last.inserted
    /\ last.payload.format = "GIF" /\ last.filename.ext = ".gif"
    /\ \E r \in table : r.filename = last.filename /\ r.file_type = "GIF"
    /\ \E r \in table : r.file_type = "JPEG" /\ r.filename.ext = ".jpg"

(* C21: the generated filename does not depend on the client's            *)
(* original_name: an ingest gets the filename (and so the path             *)
(* upload_dir/<token><ext>) it would get with the same bytes and the same  *)
(* token under any other original_name, the one file it writes has that    *)
(* name, and original_name is stored in the row's original_name column     *)
(* only.                                                                   *)
C21_FilenameIgnoresOriginalName ==
    /\ [][\A p \in NamedInputs, n \in ClientNames :
            (IngestArrives(p) /\ \E w \in Workers :
                 pc[w] = "idle" /\ pc'[w] = "insert" /\ req'[w].original_name = n) =>
               \E w \in Workers :
                  /\ pc[w] = "idle" /\ pc'[w] = "insert"
                  /\ \A m \in ClientNames :
                        req'[w].filename = unique_name(nextToken, p.format, m)
                  /\ req'[w].filename.token = nextToken
                  /\ files' = files \cup {req'[w].filename}]_vars
    /\ [](\A r \in table :
            /\ r.original_name \in ClientNames
            /\ r.filename.ext = CanonicalExtension(r.file_type)
            /\ r.filename \in files)

C21_Witness ==
    /\ \E r1, r2 \in table :
          /\ r1.original_name = "cat.jpg"
          /\ r2.original_name = "../../etc/passwd.png"
          /\ r1.file_type = r2.file_type
          /\ r1.filename.ext = r2.filename.ext
    /\ last.op = "upload" /\ last.inserted
    /\ last.original_name = "../../etc/passwd.png" /\ last.filename.ext = ".jpg"

C23_ErrorsTranslated ==
    last.op = "upload" =>
        /\ FirstFailingGate(last.payload) \in 2..4 =>
              /\ last.status = 400
              /\ last.message = ExpectedMessage(last.payload)
        /\ FirstFailingGate(last.payload) = 1 => PayloadTooLarge(last)
        /\ last.fault = "write" => last.status \in 500..599
        /\ last.status \in 400..499 =>
              /\ FirstFailingGate(last.payload) # 0
              /\ last.fault = "none"
        /\ last.status \in 500..599 =>
              /\ FirstFailingGate(last.payload) = 0
              /\ last.fault = "write"

C23_Witness ==
    /\ last.op = "upload" /\ last.fault = "write" /\ last.status = 500
    /\ last.payload.format = PNG
    /\ last.message = "Uploading file error."

(* C24: whenever save_image has ended, whether the disk write succeeded   *)
(* or raised, the image handle it received from the Validator has been     *)
(* closed, for every format and colour mode, a JPEG converted to RGB       *)
(* included.                                                               *)
C24_ImageHandleClosed ==
    (last.op = "upload" /\ last.filename # NoFile) => last.image = "closed"

(* C25: the image written for a JPEG input has colour mode RGB or L: a    *)
(* source in another mode is converted to RGB, a source in RGB or L is     *)
(* written as it is, and PNG and GIF inputs are never converted.           *)
C25_JpegWrittenAsRgbOrL ==
    \A r \in {last} \cup {req[w] : w \in Workers} :
        (r.op = "upload" /\ r.filename # NoFile) =>
            /\ r.payload.format = "JPEG" =>
                  /\ r.saved_mode \in {"RGB", "L"}
                  /\ r.payload.mode \in {"RGB", "L"} =>
                        r.saved_mode = r.payload.mode /\ r.converted = "none"
                  /\ r.payload.mode \notin {"RGB", "L"} =>
                        r.saved_mode = "RGB" /\ r.converted # "none"
            /\ r.payload.format \in {"PNG", "GIF"} =>
                  r.saved_mode = r.payload.mode /\ r.converted = "none"

C25_Witness ==
    /\ last.op = "upload" /\ last.inserted
    /\ last.payload.format = "JPEG" /\ last.payload.mode = "CMYK"
    /\ last.saved_mode = "RGB"
    /\ \E w \in Workers :
          /\ pc[w] = "commit" /\ req[w].payload.format = "PNG"
          /\ req[w].payload.mode = "P" /\ req[w].saved_mode = "P"

(* C26: when the database connection cannot be obtained, get_images_page  *)
(* returns an empty image list with total = 0, total_pages = 1,            *)
(* has_prev = false and has_next = false, whatever page was requested and  *)
(* whatever the table holds, and the request is answered as a success.     *)
C26_NoConnectionDegrades ==
    (last.op = "list" /\ last.fault = "connect") =>
        /\ last.status = 200
        /\ last.conn = "none"
        /\ last.images = <<>>
        /\ last.pagination.total = 0
        /\ last.pagination.total_pages = 1
        /\ last.pagination.has_prev = FALSE
        /\ last.pagination.has_next = FALSE

C26_Witness ==
    /\ last.op = "list" /\ last.fault = "connect" /\ last.status = 200
    /\ last.requested = 3 /\ last.per_page = PER_PAGE
    /\ Cardinality(table) = 15
    /\ last.images = <<>>

(* C27: every POST /upload that handle_post has handled was answered with *)
(* exactly one JSON response, for every combination of headers, form       *)
(* content and file content, a file part with a filename and a body of     *)
(* length zero included.                                                   *)
C27_ExactlyOneResponse ==
    (last.op = "upload" /\ \A w \in Workers : pc[w] = "idle") => last.responses = 1

(* C28: a delete is answered 404 only when its lookup ran and found no    *)
(* row with that id; in particular a delete that got no database           *)
(* connection is not answered 404 (it is a server-side failure).           *)
C28_NotFoundMeansNoRow ==
    (last.op = "delete" /\ last.status = 404) =>
        /\ last.conn # "none"
        /\ last.fault = "none"
        /\ ~last.found

(* C29: within one delete the steps come in the order lookup, DELETE      *)
(* statement, file removal attempt, commit: a file leaves upload_dir only  *)
(* in the removal step of a delete whose lookup found the row of that      *)
(* file and whose DELETE statement has been executed, and the table        *)
(* changes by a delete only in its commit step, after the removal attempt  *)
(* has finished (or was skipped because the file was not there).           *)
C29_DeleteStepOrder ==
    /\ [][\A w \in Workers :
            (pc[w] \in DeletePcs /\ pc'[w] # pc[w]) =>
                \/ pc[w] = "del_delete" /\ pc'[w] \in {"del_exists", "idle"}
                \/ pc[w] = "del_exists" /\ pc'[w] \in {"del_remove", "del_commit"}
                \/ pc[w] = "del_remove" /\ pc'[w] = "del_commit"
                \/ pc[w] = "del_commit" /\ pc'[w] = "idle"]_vars
    /\ [][\A f \in files \ files' :
            \E w \in Workers :
                /\ pc[w] = "del_remove" /\ pc'[w] = "del_commit"
                /\ req[w].found /\ req[w].exists /\ req[w].filename = f
                /\ req'[w].remove = "removed"
                /\ table' = table]_vars
    /\ [][\A r \in table \ table' :
            \E w \in Workers :
                /\ pc[w] = "del_commit" /\ pc'[w] = "idle"
                /\ req[w].found /\ req[w].rowcount = 1 /\ req[w].image_id = r.id
                /\ req[w].exists => req[w].remove \in {"removed", "missing", "oserror"}
                /\ ~req[w].exists => req[w].remove = "none"
                /\ files' = files]_vars
    /\ [](\A w \in Workers :
            /\ pc[w] \in DeletePcs => req[w].found
            /\ pc[w] = "del_commit" =>
                  (req[w].exists <=> req[w].remove # "none"))

C29_Witness ==
    /\ last.op = "delete" /\ last.status = 200 /\ last.found
    /\ last.rowcount = 1 /\ last.exists /\ last.remove = "removed"
    /\ last.filename \notin files
    /\ RowsById(last.image_id) = {}
    /\ table # {}

(* C30: every result of get_images_page is consistent in itself, also     *)
(* when deletes commit while the listing runs: the number of images        *)
(* returned is min(per_page, max(0, total - (page-1)*per_page)) for the    *)
(* total reported in the same result.                                      *)
C30_ListingIsOneSnapshot ==
    ListingAnswered =>
        LET rest == last.pagination.total
                       - (last.pagination.current_page - 1) * last.per_page
        IN Len(last.images) = IF rest <= 0 THEN 0
                              ELSE IF rest < last.per_page THEN rest
                              ELSE last.per_page

(* C31: with the table unchanged, the pages 1 .. total_pages hold every   *)
(* row exactly once, also when rows have equal upload_time.  The pages of  *)
(* one page size have the sizes of C20, which add up to the number of      *)
(* rows, so this is the same as: two listings of different pages with the  *)
(* same page size, one answered after the other, have no row in common.    *)
C31_PagesShareNoRow ==
    [][(/\ ListingAnswered
        /\ last'.op = "list" /\ last'.fault = "none"
        /\ last'.per_page = last.per_page
        /\ last'.page # last.page) =>
           \A i \in 1..Len(last.images), j \in 1..Len(last'.images) :
               last.images[i] # last'.images[j]]_vars

(* The path has exactly the form /delete/<decimal id>.                     *)
ExactDeleteForm(path) ==
    /\ Len(path) > Len(DeletePrefix)
    /\ \A i \in 1..Len(DeletePrefix) : path[i] = DeletePrefix[i]
    /\ \A i \in (Len(DeletePrefix) + 1)..Len(path) : IsDigit(path[i])

(* C32: a DELETE request triggers a deletion only when its path has        *)
(* exactly the form /delete/<decimal id>, and then for that id; a DELETE   *)
(* with any other path is answered 404 and never reaches the steps that    *)
(* change the table or the filesystem.                                     *)
C32_OnlyExactPathDeletes ==
    /\ \A w \in Workers :
          (req[w].path # <<>> /\ pc[w] \in DeletePcs) =>
             /\ ExactDeleteForm(urlparse_path(req[w].path))
             /\ req[w].image_id =
                   int(SubSeq(urlparse_path(req[w].path), Len(DeletePrefix) + 1,
                              Len(urlparse_path(req[w].path))))
    /\ (/\ last.op = "delete"
        /\ last.path # <<>>
        /\ ~ExactDeleteForm(urlparse_path(last.path))) =>
           /\ last.status = 404
           /\ ~last.found
====
